---- MODULE Spec2Model ----
(***************************************************************************)
(* A model of od-msspe (src/od-msspe/src/main.rs): the segmentation and    *)
(* indexing pipeline, the greedy k-mer selection loop and the string       *)
(* predicates of the primer quality control.                               *)
(*                                                                         *)
(* Strings are sequences of one-character strings.  A HashMap is a         *)
(* function whose DOMAIN is its key set.  Rust's HashMap iterates "in      *)
(* arbitrary order": wherever a result depends on that order the model     *)
(* offers every outcome some order produces.                               *)
(***************************************************************************)
EXTENDS Integers, Sequences, FiniteSets, TLC

VARIABLES
    pc,                        \* position of the modelled call
    arg,                       \* argument of a string function
    ret,                       \* value(s) returned by the modelled call
    records,                   \* Vec<SequenceRecord>, the sequences only
    params,                    \* ovlp_windows_size, kmer_size, search_windows_size
    segments,                  \* HashMap<usize, Segment>
    kmer_segment_mappings,     \* KmerSegmentMapping
    skipped_segment_indexes,   \* HashSet<usize>
    candidate_kmers,           \* Vec<KmerFrequency>
    iter_no,                   \* loop counter of get_candidates_kmers
    config,                    \* iteration cap and mismatch tolerance in force
    result                     \* what find_most_freq_kmer returned last

vars == << pc, arg, ret, records, params, segments, kmer_segment_mappings,
           skipped_segment_indexes, candidate_kmers, iter_no, config, result >>

----------------------------------------------------------------------------
(* Program constants.                                                      *)

SEQ_DIR_FWD == 0
SEQ_DIR_REV == 1
MAX_MISMATCH_SEGMENTS == 0
MAX_ITERATIONS == 100

Directions == {SEQ_DIR_FWD, SEQ_DIR_REV}

(* Bounds of the model.                                                    *)

MaxKmerLen == 10      \* longest string handed to is_repeats and is_run
MaxSeqLen == 3        \* longest string handed to reverse_complement

----------------------------------------------------------------------------
(* Small helpers.                                                          *)

SeqsUpTo(S, n) == UNION {[1..m -> S] : m \in 0..n}

Range(f) == {f[x] : x \in DOMAIN f}

----------------------------------------------------------------------------
(* reverse_complement                                                      *)

\* the match of the closure in reverse_complement
Complement(c) ==
    CASE c = "A" -> "T"
      [] c = "T" -> "A"
      [] c = "U" -> "A"
      [] c = "C" -> "G"
      [] c = "G" -> "C"
      [] OTHER -> c

reverse_complement_no_rev(sequence) ==
    [i \in 1..Len(sequence) |-> Complement(sequence[i])]

\* sequence.chars().rev().map(..).collect()
reverse_complement(sequence) ==
    [i \in 1..Len(sequence) |-> Complement(sequence[Len(sequence) - i + 1])]

----------------------------------------------------------------------------
(* The n-gram iterator as the repository uses it: the length-n windows of  *)
(* the input at stride 1, in order, none when the input is shorter than n. *)

ngrams(s, n) ==
    IF Len(s) < n THEN << >>
    ELSE [i \in 1..(Len(s) - n + 1) |-> SubSeq(s, i, i + n - 1)]

----------------------------------------------------------------------------
(* is_repeats and is_run                                                   *)

RECURSIVE IsRepeatsLoop(_, _, _, _)
\* the for loop of is_repeats over chunks[i..], with the locals repeats and
\* last_chunk; yields the final value of repeats
IsRepeatsLoop(chunks, i, repeats, last_chunk) ==
    IF i > Len(chunks) THEN repeats
    ELSE IsRepeatsLoop(chunks, i + 1,
                       IF chunks[i] = last_chunk THEN repeats + 1 ELSE 0,
                       chunks[i])

is_repeats(kmer) == IsRepeatsLoop(ngrams(kmer, 2), 1, 0, << >>) >= 5

RECURSIVE IsRunLoop(_, _, _, _)
\* the for loop of is_run over kmer[i..], with the locals runs and last_char
IsRunLoop(kmer, i, runs, last_char) ==
    IF i > Len(kmer) THEN runs
    ELSE IsRunLoop(kmer, i + 1,
                   IF kmer[i] = last_char THEN runs + 1 ELSE 0,
                   kmer[i])

is_run(kmer) == IsRunLoop(kmer, 1, 0, " ") >= 5

----------------------------------------------------------------------------
(* SpecPure: the string functions applied to every input of a bounded set. *)

Unused == << >>

NoRet == [fn |-> "none", value |-> FALSE]

Bases == {"A", "T", "C", "G"}

\* k-mers handed to the predicates of get_kmer_stats
KmerInputs == SeqsUpTo({"A", "T"}, MaxKmerLen)

\* sequences handed to reverse_complement: bases, RNA U, ambiguity and gap
SeqInputs == SeqsUpTo(Bases \cup {"U", "N", "-"}, MaxSeqLen)

\* the example of the doc comment of is_repeats
DocExample == <<"A", "T", "A", "T", "A", "T", "A", "T", "A", "T", "G", "G">>

InitPure ==
    /\ pc = "call"
    /\ arg \in KmerInputs \cup SeqInputs \cup {DocExample}
    /\ ret = NoRet
    /\ records = Unused
    /\ params = Unused
    /\ segments = Unused
    /\ kmer_segment_mappings = Unused
    /\ skipped_segment_indexes = {}
    /\ candidate_kmers = << >>
    /\ iter_no = 0
    /\ config = Unused
    /\ result = Unused

PureFrame ==
    UNCHANGED << arg, records, params, segments, kmer_segment_mappings,
                 skipped_segment_indexes, candidate_kmers, iter_no, config,
                 result >>

CallIsRepeats ==
    /\ pc = "call"
    /\ ret' = [fn |-> "is_repeats", value |-> is_repeats(arg)]
    /\ pc' = "returned"
    /\ PureFrame

CallIsRun ==
    /\ pc = "call"
    /\ ret' = [fn |-> "is_run", value |-> is_run(arg)]
    /\ pc' = "returned"
    /\ PureFrame

CallReverseComplement ==
    /\ pc = "call"
    /\ ret' = [fn |-> "reverse_complement", value |-> reverse_complement(arg)]
    /\ pc' = "returned"
    /\ PureFrame

\* reverse_complement applied to the string the first call returned
CallReverseComplementAgain ==
    /\ pc = "returned"
    /\ ret.fn = "reverse_complement"
    /\ ret' = [fn |-> "reverse_complement_twice",
               value |-> reverse_complement(ret.value)]
    /\ pc' = "returned_twice"
    /\ PureFrame

NextPure ==
    \/ CallIsRepeats
    \/ CallIsRun
    \/ CallReverseComplement
    \/ CallReverseComplementAgain

SpecPure == InitPure /\ [][NextPure]_vars

----------------------------------------------------------------------------
(* Claims about the string functions, checked under SpecPure.              *)

\* some 2-character motif repeated 5 times contiguously starts at position i
MotifRepeatedAt(s, i) ==
    /\ i + 9 <= Len(s)
    /\ \A j \in 0..7 : s[i + j] = s[i + j + 2]

HasDinucleotideRepeat(s) == \E i \in 1..Len(s) : MotifRepeatedAt(s, i)

\* C8: is_repeats(kmer) is true iff kmer contains, anywhere, a 2-character
\* motif repeated at least 5 times contiguously.
C8_IsRepeatsDetectsMotif ==
    ret.fn = "is_repeats" => (ret.value <=> HasDinucleotideRepeat(arg))

HasRun(s) ==
    \E i \in 1..Len(s) :
        /\ i + 4 <= Len(s)
        /\ \A j \in 1..4 : s[i + j] = s[i]

\* C9: is_run(kmer) is true iff some single character occurs 5 or more
\* times consecutively anywhere in kmer.
C9_IsRunDetectsRun ==
    ret.fn = "is_run" => (ret.value <=> HasRun(arg))

\* the reverse of s with every character replaced by f of it
ReversedMap(s, t, f(_)) ==
    /\ Len(t) = Len(s)
    /\ \A i \in 1..Len(s) : t[i] = f(s[Len(s) - i + 1])

SwapOnly(c) ==
    IF c = "A" THEN "T" ELSE IF c = "T" THEN "A"
    ELSE IF c = "C" THEN "G" ELSE IF c = "G" THEN "C" ELSE c

SwapAndU(c) == IF c = "U" THEN "A" ELSE SwapOnly(c)

InvolutionOnBases ==
    (ret.fn = "reverse_complement_twice" /\ Range(arg) \subseteq Bases)
        => ret.value = arg

\* C10 as stated: reverse_complement reverses its input, swaps A with T and
\* C with G and passes every other character (gap, N, U) through unchanged,
\* and applying it twice to a string over {A,T,C,G} gives the string back.
C10_Original ==
    /\ ret.fn = "reverse_complement" => ReversedMap(arg, ret.value, SwapOnly)
    /\ InvolutionOnBases

\* C10 amended: reverse_complement reverses its input, swaps A with T and
\* C with G, maps U to A, and passes every other character through
\* unchanged; applying it twice to a string over {A,T,C,G} gives the string
\* back.
C10_ReverseComplement ==
    /\ ret.fn = "reverse_complement" => ReversedMap(arg, ret.value, SwapAndU)
    /\ InvolutionOnBases

\* a round trip over the four bases has been computed, on a string that is
\* not its own reverse complement
C10_Witness ==
    /\ ret.fn = "reverse_complement_twice"
    /\ Range(arg) = {"A", "C", "G"}
    /\ reverse_complement(arg) # arg

----------------------------------------------------------------------------
(* find_kmers, partitioning_sequence, get_sequence_on_search_windows       *)

\* the characters of "Nn- "
Excluded == {"N", "n", "-", " "}

IsValidKmer(kmer) == \A i \in 1..Len(kmer) : kmer[i] \notin Excluded

RECURSIVE UniqueFrom(_, _, _)
\* itertools' unique(): the elements of s[i..] not already in acc, each once,
\* in the order of their first occurrence, appended to acc
UniqueFrom(s, i, acc) ==
    IF i > Len(s) THEN acc
    ELSE UniqueFrom(s, i + 1,
                    IF s[i] \in Range(acc) THEN acc ELSE Append(acc, s[i]))

unique(s) == UniqueFrom(s, 1, << >>)

find_kmers_no_unique(sequence, kmer_size) ==
    SelectSeq(ngrams(sequence, kmer_size), IsValidKmer)

find_kmers(sequence, kmer_size) ==
    unique(SelectSeq(ngrams(sequence, kmer_size), IsValidKmer))

\* how many windows of 2 * ovlp_windows_size, stepped by ovlp_windows_size,
\* fit in a sequence of length n
PartitionCount(n, ovlp_windows_size) ==
    IF n < 2 * ovlp_windows_size THEN 0
    ELSE (n - 2 * ovlp_windows_size) \div ovlp_windows_size + 1

\* the partitions, in order; partition idx (counted from 0) is element idx + 1
partitioning_sequence(sequence, ovlp_windows_size) ==
    [j \in 1..PartitionCount(Len(sequence), ovlp_windows_size) |->
        SubSeq(sequence, (j - 1) * ovlp_windows_size + 1,
                         (j - 1) * ovlp_windows_size + 2 * ovlp_windows_size)]

get_sequence_on_search_windows(sequence, search_windows_size) ==
    [first |-> SubSeq(sequence, 1, search_windows_size),
     second |-> SubSeq(sequence, Len(sequence) - search_windows_size + 1,
                                 Len(sequence))]

----------------------------------------------------------------------------
(* get_segments                                                            *)

EmptyMap == [x \in {} |-> 0]

KmerRecord(word, direction) == [word |-> word, direction |-> direction]

\* segment.kmers.entry(kmer).and_modify(|e| *e += 1).or_insert(1)
CountKmer(kmers, kmer) ==
    [x \in DOMAIN kmers \cup {kmer} |->
        IF x = kmer
        THEN (IF kmer \in DOMAIN kmers THEN kmers[kmer] + 1 ELSE 1)
        ELSE kmers[x]]

RECURSIVE CountKmers(_, _, _, _)
\* one of the two "for kmer in .._kmers.iter()" loops, from element i on
CountKmers(kmers, words, direction, i) ==
    IF i > Len(words) THEN kmers
    ELSE CountKmers(CountKmer(kmers, KmerRecord(words[i], direction)),
                    words, direction, i + 1)

\* the body of the loop over the partitions of one record
AddPartition(segs, idx, partition, kmer_size, search_windows_size) ==
    LET segment == IF idx \in DOMAIN segs THEN segs[idx]
                   ELSE [index |-> idx % 65536, kmers |-> EmptyMap]
        windows == get_sequence_on_search_windows(partition, search_windows_size)
        fwd_kmers == find_kmers(windows.first, kmer_size)
        rev_kmers == find_kmers(reverse_complement(windows.second), kmer_size)
        counted == CountKmers(CountKmers(segment.kmers, fwd_kmers, SEQ_DIR_FWD, 1),
                              rev_kmers, SEQ_DIR_REV, 1)
    IN  [x \in DOMAIN segs \cup {idx} |->
            IF x = idx THEN [index |-> segment.index, kmers |-> counted]
            ELSE segs[x]]

RECURSIVE AddPartitions(_, _, _, _, _)
\* the loop over partitions[j..] of one record (partition j has idx j - 1)
AddPartitions(segs, partitions, j, kmer_size, search_windows_size) ==
    IF j > Len(partitions) THEN segs
    ELSE AddPartitions(
            AddPartition(segs, j - 1, partitions[j], kmer_size, search_windows_size),
            partitions, j + 1, kmer_size, search_windows_size)

RECURSIVE AddRecords(_, _, _, _, _, _)
\* the loop over recs[r..]
AddRecords(segs, recs, r, ovlp_windows_size, kmer_size, search_windows_size) ==
    IF r > Len(recs) THEN segs
    ELSE AddRecords(
            AddPartitions(segs, partitioning_sequence(recs[r], ovlp_windows_size),
                          1, kmer_size, search_windows_size),
            recs, r + 1, ovlp_windows_size, kmer_size, search_windows_size)

\* the value get_segments returns when it does not panic
get_segments(recs, ovlp_windows_size, kmer_size, search_windows_size) ==
    AddRecords(EmptyMap, recs, 1, ovlp_windows_size, kmer_size, search_windows_size)

----------------------------------------------------------------------------
(* SpecSeg: get_segments on every small alignment and every small          *)
(* configuration.                                                          *)

MaxRecords == 2       \* most records of an alignment
MaxLength == 4        \* longest aligned sequence
MaxWidth == 2         \* largest window width and k-mer size

\* the shortest alignment considered: two partitions at width 1
MinLength == MaxLength - 1

SeqAlphabet == {"A", "T", "-"}

Alignments ==
    UNION {[1..n -> [1..len -> SeqAlphabet]] :
              n \in 1..MaxRecords, len \in MinLength..MaxLength}

InitSeg ==
    /\ pc = "call"
    /\ records \in Alignments
    /\ params \in [ovlp_windows_size : 1..MaxWidth,
                   kmer_size : 1..MaxWidth,
                   search_windows_size : 1..MaxWidth]
    /\ segments = Unused
    /\ arg = Unused
    /\ ret = NoRet
    /\ kmer_segment_mappings = Unused
    /\ skipped_segment_indexes = {}
    /\ candidate_kmers = << >>
    /\ iter_no = 0
    /\ config = Unused
    /\ result = Unused

SegFrame ==
    UNCHANGED << arg, ret, records, params, kmer_segment_mappings,
                 skipped_segment_indexes, candidate_kmers, iter_no, config,
                 result >>

\* the panic! of get_segments: search windows wider than the overlap windows
GetSegmentsPanic ==
    /\ pc = "call"
    /\ params.ovlp_windows_size < params.search_windows_size
    /\ pc' = "panic"
    /\ UNCHANGED segments
    /\ SegFrame

\* log::debug!(.., partitions[0].len()): the arguments are evaluated only when
\* the debug level is enabled (RUST_LOG), and then the index panics for a
\* record too short to hold one partition
GetSegmentsLogPanic ==
    /\ pc = "call"
    /\ params.ovlp_windows_size >= params.search_windows_size
    /\ Len(partitioning_sequence(records[1], params.ovlp_windows_size)) = 0
    /\ pc' = "panic"
    /\ UNCHANGED segments
    /\ SegFrame

GetSegments ==
    /\ pc = "call"
    /\ params.ovlp_windows_size >= params.search_windows_size
    /\ segments' = get_segments(records, params.ovlp_windows_size,
                                params.kmer_size, params.search_windows_size)
    /\ pc' = "returned"
    /\ SegFrame

NextSeg ==
    \/ GetSegmentsPanic
    \/ GetSegmentsLogPanic
    \/ GetSegments

SpecSeg == InitSeg /\ [][NextSeg]_vars

----------------------------------------------------------------------------
(* Claims about get_segments, checked under SpecSeg.                       *)

\* the partition offsets of an alignment whose sequences have length n:
\* offset i is the characters [i*W, i*W + 2W)
PartitionOffsets(n, W) == {i \in 0..n : i * W + 2 * W <= n}

PartitionAt(sequence, i, W) == SubSeq(sequence, i * W + 1, i * W + 2 * W)

\* the window of partition i of a sequence that a strand's k-mers are read from
StrandWindow(sequence, i, direction, W, S) ==
    IF direction = SEQ_DIR_FWD
    THEN SubSeq(PartitionAt(sequence, i, W), 1, S)
    ELSE reverse_complement(SubSeq(PartitionAt(sequence, i, W), 2 * W - S + 1, 2 * W))

\* word occurs in window as a substring, and holds no excluded character
Exhibits(window, word) ==
    /\ \A p \in 1..Len(word) : word[p] \notin Excluded
    /\ \E p \in 1..Len(window) :
          /\ p + Len(word) - 1 <= Len(window)
          /\ SubSeq(window, p, p + Len(word) - 1) = word

\* the records exhibiting (word, direction) in partition i
Exhibitors(recs, i, word, direction, W, S) ==
    {r \in 1..Len(recs) :
        Exhibits(StrandWindow(recs[r], i, direction, W, S), word)}

\* C4: with partition width W >= search width S, get_segments produces one
\* segment per partition offset, and segment i maps (word, strand) to the
\* number of records exhibiting word in that strand's search window of
\* partition i; a pair no record exhibits is absent, and a k-mer repeated
\* inside one window of one record counts once.
C4_SegmentCounts ==
    pc = "returned" =>
        LET W == params.ovlp_windows_size
            K == params.kmer_size
            S == params.search_windows_size
        IN  /\ DOMAIN segments = PartitionOffsets(Len(records[1]), W)
            /\ \A i \in DOMAIN segments :
                  /\ segments[i].index = i
                  /\ \A word \in [1..K -> SeqAlphabet], d \in Directions :
                        LET n == Cardinality(Exhibitors(records, i, word, d, W, S))
                            k == KmerRecord(word, d)
                        IN  /\ (k \in DOMAIN segments[i].kmers) <=> (n > 0)
                            /\ n > 0 => segments[i].kmers[k] = n
                  /\ \A k \in DOMAIN segments[i].kmers :
                        /\ Len(k.word) = K
                        /\ Range(k.word) \subseteq SeqAlphabet
                        /\ k.direction \in Directions

\* get_segments returned, and some record repeats a k-mer inside one forward
\* window while that k-mer, shared by two records, is counted twice
C4_Witness ==
    /\ pc = "returned"
    /\ \E r \in 1..Len(records) : \E i \in DOMAIN segments :
          LET w == StrandWindow(records[r], i, SEQ_DIR_FWD,
                                params.ovlp_windows_size, params.search_windows_size)
              all == find_kmers_no_unique(w, params.kmer_size)
          IN  /\ Len(all) > Len(find_kmers(w, params.kmer_size))
              /\ segments[i].kmers[KmerRecord(all[1], SEQ_DIR_FWD)] = 2

----------------------------------------------------------------------------
(* make_kmer_segments_mapping                                              *)

WordsOf(segment) == {k.word : k \in DOMAIN segment.kmers}

AllWords(segs) == UNION {WordsOf(segs[i]) : i \in DOMAIN segs}

\* the strands under which a segment holds a word
StrandsOf(segment, word) ==
    {d \in Directions : KmerRecord(word, d) \in DOMAIN segment.kmers}

\* the (word, segment key) pairs for which the mapping gets an entry
MappingPairs(segs) ==
    {p \in AllWords(segs) \X DOMAIN segs : p[1] \in WordsOf(segs[p[2]])}

\* For every pair, the strand whose entry the loop over segment.kmers visits
\* last: the iteration order of a HashMap is arbitrary, so any strand the
\* segment holds the word under.
LastVisited(segs) ==
    {last \in [MappingPairs(segs) -> Directions] :
        \A p \in MappingPairs(segs) : last[p] \in StrandsOf(segs[p[2]], p[1])}

\* entry(word).or_insert(HashMap::new()).insert(*i, *freq as u32): a later
\* insert under the same word and segment replaces the earlier value (the
\* cast to u32 changes no count below 2^32, and a count is at most the number
\* of records)
MappingBuilt(segs, last) ==
    [word \in AllWords(segs) |->
        [i \in {j \in DOMAIN segs : word \in WordsOf(segs[j])} |->
            segs[i].kmers[KmerRecord(word, last[<<word, i>>])]]]

\* the mappings make_kmer_segments_mapping can return
make_kmer_segments_mapping(segs) ==
    {MappingBuilt(segs, last) : last \in LastVisited(segs)}

----------------------------------------------------------------------------
(* find_most_freq_kmer                                                     *)

\* a mutation: the test of skipped_segment_indexes is dropped
live_ignoring_skipped(segs, skipped) == DOMAIN segs

\* the keys of the segments the first loop does not skip
LiveSegments(segs, skipped) == {i \in DOMAIN segs : segs[i].index \notin skipped}

CountOf(segment, kmer) ==
    IF kmer \in DOMAIN segment.kmers THEN segment.kmers[kmer] ELSE 0

\* kmer_counts of one segment: the counts collapsed by word
kmer_counts(segment) ==
    [word \in WordsOf(segment) |->
        CountOf(segment, KmerRecord(word, SEQ_DIR_FWD))
            + CountOf(segment, KmerRecord(word, SEQ_DIR_REV))]

RECURSIVE SumCounts(_, _, _)
SumCounts(segs, keys, kmer) ==
    IF keys = {} THEN 0
    ELSE LET i == CHOOSE j \in keys : TRUE
         IN  CountOf(segs[i], kmer) + SumCounts(segs, keys \ {i}, kmer)

\* a mutation: the totals also count the segments the first loop skips
total_over_all_segments(segs, live, kmer) == SumCounts(segs, DOMAIN segs, kmer)

\* kmer_total_counts[kmer] after the first loop: the counts of (word, strand)
\* summed over the segments that loop visited
kmer_total_counts(segs, live, kmer) == SumCounts(segs, live, kmer)

\* What the loop body can insert into candidate_kmers for one segment:
\* max_by keeps a word of maximal collapsed count (any of them, by the order
\* of kmer_counts), kmer_map keeps the strand of the word's first visited
\* entry (any the segment holds it under).
LocalWinners(segment) ==
    LET counts == kmer_counts(segment)
        best == {w \in DOMAIN counts : \A v \in DOMAIN counts : counts[v] <= counts[w]}
    IN  UNION {{[kmer |-> KmerRecord(word, d), frequency |-> counts[word]] :
                    d \in StrandsOf(segment, word)} : word \in best}

\* the candidate_kmers maps the first loop can build, keyed by segment.index
CandidateKmers(segs, live) ==
    {c \in [{segs[i].index : i \in live}
              -> UNION {LocalWinners(segs[i]) : i \in live}] :
        \A i \in live : c[segs[i].index] \in LocalWinners(segs[i])}

\* the second max_by: a candidate of maximal kmer_total_counts (any of them)
RoundWinners(segs, live, candidates) ==
    {candidates[i] : i \in
        {a \in DOMAIN candidates : \A b \in DOMAIN candidates :
            kmer_total_counts(segs, live, candidates[b].kmer)
                <= kmer_total_counts(segs, live, candidates[a].kmer)}}

\* a mutation: only the segments of the reverse complement are matched
matched_rev_only(mapping, word) ==
    IF reverse_complement(word) \in DOMAIN mapping
    THEN DOMAIN mapping[reverse_complement(word)] ELSE {}

\* a mutation: the segments of the reverse complement are not matched
matched_word_only(mapping, word) == DOMAIN mapping[word]

\* the set returned with the winner: the segments the mapping lists under
\* the winner's word, and those under its reverse complement if it is a key
matched_segment_indexes(mapping, word) ==
    DOMAIN mapping[word]
        \cup (IF reverse_complement(word) \in DOMAIN mapping
              THEN DOMAIN mapping[reverse_complement(word)] ELSE {})

\* The outcomes of find_most_freq_kmer: a panic (unwrap of the None that
\* max_by gives for a visited segment without k-mers), None (no segment
\* visited) or Some((winner, matched segments)).
find_most_freq_kmer(segs, mapping, skipped) ==
    LET live == LiveSegments(segs, skipped)
    IN  IF \E i \in live : DOMAIN segs[i].kmers = {}
        THEN {[kind |-> "panic"]}
        ELSE IF live = {}
        THEN {[kind |-> "none"]}
        ELSE {[kind |-> "some", winner |-> w,
               skipped |-> matched_segment_indexes(mapping, w.kmer.word)] :
                w \in UNION {RoundWinners(segs, live, c) : c \in CandidateKmers(segs, live)}}

----------------------------------------------------------------------------
(* The segment indexes the selection is run on: up to MaxSegments          *)
(* segments keyed 0, 1, ..., each holding up to MaxEntries (word, strand)  *)
(* entries with counts up to MaxCount.  AC and GT are reverse complements  *)
(* of each other; the reverse complement of AA is outside the pool.        *)

MaxSegments == 2
MaxEntries == 2
MaxCount == 2

WordPool == {<<"A", "C">>, <<"G", "T">>, <<"A", "A">>}

KmerRecords == {KmerRecord(w, d) : w \in WordPool, d \in Directions}

KmerMaps ==
    UNION {[D -> 1..MaxCount] :
              D \in {E \in SUBSET KmerRecords : Cardinality(E) <= MaxEntries}}

SegmentIndexes ==
    UNION {{[i \in 0..(n - 1) |-> [index |-> i, kmers |-> f[i]]] :
                f \in [0..(n - 1) -> KmerMaps]} : n \in 0..MaxSegments}

----------------------------------------------------------------------------
(* SpecMap: make_kmer_segments_mapping called twice on one segment index.  *)

InitMap ==
    /\ pc = "call"
    /\ segments \in SegmentIndexes
    /\ ret = << >>
    /\ arg = Unused
    /\ records = Unused
    /\ params = Unused
    /\ kmer_segment_mappings = Unused
    /\ skipped_segment_indexes = {}
    /\ candidate_kmers = << >>
    /\ iter_no = 0
    /\ config = Unused
    /\ result = Unused

\* one call; ret collects the mappings returned so far
MakeMapping ==
    /\ pc = "call"
    /\ \E m \in make_kmer_segments_mapping(segments) : ret' = Append(ret, m)
    /\ pc' = IF Len(ret) = 0 THEN "call" ELSE "returned"
    /\ UNCHANGED << arg, records, params, segments, kmer_segment_mappings,
                    skipped_segment_indexes, candidate_kmers, iter_no, config,
                    result >>

NextMap == MakeMapping

SpecMap == InitMap /\ [][NextMap]_vars

----------------------------------------------------------------------------
(* Claims about make_kmer_segments_mapping, checked under SpecMap.         *)

\* C5: make_kmer_segments_mapping drops the strand and merges forward and
\* reverse occurrences of a word: the mapping has an entry i under word w iff
\* segment i holds w under at least one strand, and its value is the sum of
\* segment i's counts for (w, forward) and (w, reverse).
C5_MappingAggregates ==
    \A n \in 1..Len(ret) : \A w \in WordPool : \A i \in DOMAIN segments :
        /\ (w \in DOMAIN ret[n] /\ i \in DOMAIN ret[n][w])
              <=> w \in WordsOf(segments[i])
        /\ w \in WordsOf(segments[i])
              => ret[n][w][i] = CountOf(segments[i], KmerRecord(w, SEQ_DIR_FWD))
                                  + CountOf(segments[i], KmerRecord(w, SEQ_DIR_REV))

\* C6: two calls of make_kmer_segments_mapping on the same segment set
\* return identical mappings, whatever order the maps are iterated in.
C6_RebuildIdentical == Len(ret) = 2 => ret[1] = ret[2]

----------------------------------------------------------------------------
(* SpecFind: one call of find_most_freq_kmer, on any segment index and any *)
(* set of skipped segments.                                                *)

NoResult == [kind |-> "unset"]

InitFind ==
    /\ pc = "call"
    /\ segments \in SegmentIndexes
    /\ kmer_segment_mappings \in make_kmer_segments_mapping(segments)
    /\ skipped_segment_indexes \in SUBSET (DOMAIN segments)
    /\ result = NoResult
    /\ arg = Unused
    /\ ret = NoRet
    /\ records = Unused
    /\ params = Unused
    /\ candidate_kmers = << >>
    /\ iter_no = 0
    /\ config = Unused

FindFrame ==
    UNCHANGED << arg, ret, records, params, segments, kmer_segment_mappings,
                 skipped_segment_indexes, candidate_kmers, iter_no, config >>

FindReturns ==
    /\ pc = "call"
    /\ \E r \in find_most_freq_kmer(segments, kmer_segment_mappings,
                                    skipped_segment_indexes) :
          /\ r.kind # "panic"
          /\ result' = r
    /\ pc' = "returned"
    /\ FindFrame

FindPanics ==
    /\ pc = "call"
    /\ \E r \in find_most_freq_kmer(segments, kmer_segment_mappings,
                                    skipped_segment_indexes) :
          /\ r.kind = "panic"
          /\ result' = r
    /\ pc' = "panic"
    /\ FindFrame

NextFind ==
    \/ FindReturns
    \/ FindPanics

SpecFind == InitFind /\ [][NextFind]_vars

----------------------------------------------------------------------------
(* Claims about find_most_freq_kmer, checked under SpecFind.               *)

SegmentsHolding(word) == {i \in DOMAIN segments : word \in WordsOf(segments[i])}

\* the sum of a segment's counts for a word, over both strands
CollapsedCount(segment, word) ==
    CountOf(segment, KmerRecord(word, SEQ_DIR_FWD))
        + CountOf(segment, KmerRecord(word, SEQ_DIR_REV))

\* word has the largest collapsed count of the segment
IsLocalWinner(segment, word) ==
    /\ word \in WordsOf(segment)
    /\ \A v \in WordsOf(segment) :
          CollapsedCount(segment, v) <= CollapsedCount(segment, word)

\* C3: when find_most_freq_kmer returns a winner, the returned covering set
\* is exactly the segments holding the winner's word under any strand united
\* with the segments holding its reverse complement under any strand, and
\* the winner is a local winner of some segment outside the skipped set
\* passed in.
C3_CoveringSetExact ==
    (pc = "returned" /\ result.kind = "some") =>
        LET word == result.winner.kmer.word
        IN  /\ result.skipped = SegmentsHolding(word)
                                  \cup SegmentsHolding(reverse_complement(word))
            /\ \E i \in DOMAIN segments \ skipped_segment_indexes :
                  IsLocalWinner(segments[i], word)

\* a winner was returned with one segment already skipped, and its covering
\* set holds a segment that has only the reverse complement of its word
C3_Witness ==
    /\ pc = "returned"
    /\ result.kind = "some"
    /\ skipped_segment_indexes # {}
    /\ \E i \in result.skipped :
          /\ result.winner.kmer.word \notin WordsOf(segments[i])
          /\ reverse_complement(result.winner.kmer.word) \in WordsOf(segments[i])

----------------------------------------------------------------------------
(* Spec: get_candidates_kmers.                                             *)
(*                                                                         *)
(* MAX_ITERATIONS and MAX_MISMATCH_SEGMENTS are compile-time constants of  *)
(* the program.  The model runs the loop under the program's values and    *)
(* also under a small iteration cap and under positive tolerances, so that *)
(* the exit by the cap and the break on the tolerance are exercised.       *)

SmallCap == 2         \* an iteration cap small enough to be hit
MaxTolerance == 1     \* the largest mismatch tolerance tried

ProgramConfig ==
    [max_iterations |-> MAX_ITERATIONS,
     max_mismatch_segments |-> MAX_MISMATCH_SEGMENTS]

Configs ==
    [max_iterations : {MAX_ITERATIONS, SmallCap},
     max_mismatch_segments : MAX_MISMATCH_SEGMENTS..MaxTolerance]

Init ==
    /\ pc = "start"
    /\ segments \in SegmentIndexes
    /\ config \in Configs
    /\ kmer_segment_mappings = Unused
    /\ skipped_segment_indexes = {}
    /\ candidate_kmers = << >>
    /\ iter_no = 0
    /\ result = NoResult
    /\ arg = Unused
    /\ ret = NoRet
    /\ records = Unused
    /\ params = Unused

\* segments.iter().len()
total_segments == Cardinality(DOMAIN segments)

LoopFrame == UNCHANGED << arg, ret, records, params, segments, config >>

\* let kmer_segment_mappings = make_kmer_segments_mapping(&segments)
BuildMapping ==
    /\ pc = "start"
    /\ kmer_segment_mappings' \in make_kmer_segments_mapping(segments)
    /\ pc' = "loop"
    /\ UNCHANGED << skipped_segment_indexes, candidate_kmers, iter_no, result >>
    /\ LoopFrame

\* a mutation: the returned set replaces the accumulated one
replace_skipped(skipped, new_skipped_indexes) == new_skipped_indexes

\* for idx in new_skipped_indexes.iter() { skipped_segment_indexes.insert(*idx) }
insert_skipped(skipped, new_skipped_indexes) == skipped \cup new_skipped_indexes

\* what the call of find_most_freq_kmer of this iteration can return, with
\* the skipped set it was given
RoundResults ==
    {r @@ [given |-> skipped_segment_indexes] :
        r \in find_most_freq_kmer(segments, kmer_segment_mappings,
                                  skipped_segment_indexes)}

InLoop == pc = "loop" /\ iter_no < config.max_iterations

\* result.is_none(): break
RoundNone ==
    /\ InLoop
    /\ \E r \in RoundResults :
          /\ r.kind = "none"
          /\ result' = r
    /\ pc' = "done"
    /\ UNCHANGED << kmer_segment_mappings, skipped_segment_indexes,
                    candidate_kmers, iter_no >>
    /\ LoopFrame

\* an unwrap inside find_most_freq_kmer panics
RoundPanic ==
    /\ InLoop
    /\ \E r \in RoundResults :
          /\ r.kind = "panic"
          /\ result' = r
    /\ pc' = "panic"
    /\ UNCHANGED << kmer_segment_mappings, skipped_segment_indexes,
                    candidate_kmers, iter_no >>
    /\ LoopFrame

\* a winner; the segments left are not fewer than the tolerance: push it and
\* go on with the next iteration
RoundPush ==
    /\ InLoop
    /\ \E r \in RoundResults :
          /\ r.kind = "some"
          /\ result' = r
          /\ skipped_segment_indexes' =
                insert_skipped(skipped_segment_indexes, r.skipped)
          /\ ~(total_segments - Cardinality(skipped_segment_indexes')
                  < config.max_mismatch_segments)
          /\ candidate_kmers' = Append(candidate_kmers, r.winner)
    /\ iter_no' = iter_no + 1
    /\ UNCHANGED << pc, kmer_segment_mappings >>
    /\ LoopFrame

\* a winner; fewer segments are left than the tolerance: break before the push
RoundBreak ==
    /\ InLoop
    /\ \E r \in RoundResults :
          /\ r.kind = "some"
          /\ result' = r
          /\ skipped_segment_indexes' =
                insert_skipped(skipped_segment_indexes, r.skipped)
          /\ total_segments - Cardinality(skipped_segment_indexes')
                < config.max_mismatch_segments
    /\ pc' = "done"
    /\ UNCHANGED << kmer_segment_mappings, candidate_kmers, iter_no >>
    /\ LoopFrame

\* the range 0..MAX_ITERATIONS is exhausted
CapReached ==
    /\ pc = "loop"
    /\ iter_no >= config.max_iterations
    /\ pc' = "done"
    /\ UNCHANGED << kmer_segment_mappings, skipped_segment_indexes,
                    candidate_kmers, iter_no, result >>
    /\ LoopFrame

Next ==
    \/ BuildMapping
    \/ RoundNone
    \/ RoundPanic
    \/ RoundPush
    \/ RoundBreak
    \/ CapReached

Spec == Init /\ [][Next]_vars

----------------------------------------------------------------------------
(* Claims about get_candidates_kmers, checked under Spec.                  *)

EverySegmentHasKmers == \A i \in DOMAIN segments : DOMAIN segments[i].kmers # {}

\* the run C1 is about: the default tolerance, no segment without k-mers,
\* and no more segments than the iteration cap
C1_Case ==
    /\ config.max_mismatch_segments = MAX_MISMATCH_SEGMENTS
    /\ EverySegmentHasKmers
    /\ total_segments <= config.max_iterations

\* C1: get_candidates_kmers never runs more rounds than the iteration cap;
\* with mismatch tolerance 0, on a segment index in which every segment
\* holds a k-mer and whose segment count is at most the iteration cap, every
\* round that yields a winner adds a previously uncovered segment holding
\* the winner's word (the segment it won) to skipped, the loop ends after at
\* most as many winner rounds as there are segments (each round covers at
\* least one more of them), and at exit skipped is the set of all segment
\* indexes.
C1_TerminatesCovered ==
    /\ iter_no <= config.max_iterations
    /\ C1_Case =>
            /\ pc # "panic"
            /\ result.kind = "some" =>
                  \E i \in result.skipped \ result.given :
                      /\ i \in DOMAIN segments
                      /\ IsLocalWinner(segments[i], result.winner.kmer.word)
            /\ iter_no <= total_segments
            /\ Len(candidate_kmers) = iter_no
            /\ Cardinality(skipped_segment_indexes) >= iter_no
            /\ skipped_segment_indexes \subseteq DOMAIN segments
            /\ pc = "done" => skipped_segment_indexes = DOMAIN segments

\* the loop ended after two winner rounds, each covering one of two segments,
\* under the program's own constants
C1_Witness ==
    /\ pc = "done"
    /\ config = ProgramConfig
    /\ EverySegmentHasKmers
    /\ total_segments = 2
    /\ Len(candidate_kmers) = 2
    /\ skipped_segment_indexes = DOMAIN segments

\* C2: within one run of get_candidates_kmers the skipped set only grows:
\* every step leaves every skipped segment index skipped.
C2_SkippedOnlyGrows ==
    [][skipped_segment_indexes \subseteq skipped_segment_indexes']_vars

\* a second round has added a segment to a skipped set that was not empty
C2_Witness ==
    /\ iter_no = 2
    /\ result.kind = "some"
    /\ result.given # {}
    /\ result.given \subseteq skipped_segment_indexes
    /\ skipped_segment_indexes # result.given

\* Under SpecSeg: get_segments returned an index with a segment whose count
\* map is empty (every search window of that partition holds a gap), the
\* kind of index C7 speaks of.
C7_EmptySegmentProduced ==
    /\ pc = "returned"
    /\ \E i \in DOMAIN segments : DOMAIN segments[i].kmers = {}

\* C7: the greedy loop has no failure path: on any segment index that
\* get_segments can produce, one with a segment whose count map is empty
\* included, get_candidates_kmers completes without aborting.
C7_NoAbort == config = ProgramConfig => pc # "panic"

----------------------------------------------------------------------------
(* SpecWide: get_candidates_kmers on indexes of three segments, the        *)
(* smallest on which a round can have two local winners while an earlier   *)
(* round has already covered a segment.  The entries are drawn from three  *)
(* (word, strand) identities: AA forward and AC under both strands.        *)

WideSegments == 3

WideRecords ==
    {KmerRecord(<<"A", "A">>, SEQ_DIR_FWD),
     KmerRecord(<<"A", "C">>, SEQ_DIR_FWD),
     KmerRecord(<<"A", "C">>, SEQ_DIR_REV)}

WideMaps ==
    UNION {[D -> 1..MaxCount] :
              D \in {E \in SUBSET WideRecords : Cardinality(E) <= MaxEntries}}

WideIndexes ==
    {[i \in 0..(WideSegments - 1) |-> [index |-> i, kmers |-> f[i]]] :
        f \in [0..(WideSegments - 1) -> WideMaps]}

\* the program's constants, and a small cap with every tolerance tried
WideConfigs ==
    {ProgramConfig}
        \cup [max_iterations : {SmallCap},
              max_mismatch_segments : MAX_MISMATCH_SEGMENTS..MaxTolerance]

InitWide ==
    /\ pc = "start"
    /\ segments \in WideIndexes
    /\ config \in WideConfigs
    /\ kmer_segment_mappings = Unused
    /\ skipped_segment_indexes = {}
    /\ candidate_kmers = << >>
    /\ iter_no = 0
    /\ result = NoResult
    /\ arg = Unused
    /\ ret = NoRet
    /\ records = Unused
    /\ params = Unused

SpecWide == InitWide /\ [][Next]_vars

----------------------------------------------------------------------------
(* Claims about the round winner, checked under SpecWide.                  *)

\* the number of occurrences of the identity kmer in the segments of keys
IdentityTotal(keys, kmer) ==
    Cardinality({p \in keys \X (1..MaxCount) :
                    p[2] <= CountOf(segments[p[1]], kmer)})

\* the segments the round that produced result did not skip
RoundLive == DOMAIN segments \ result.given

\* The ways a round can pick one local winner per live segment: an identity
\* the segment holds whose word has the largest collapsed count there.
RoundChoices ==
    {c \in [RoundLive -> UNION {DOMAIN segments[i].kmers : i \in RoundLive}] :
        \A i \in RoundLive :
            /\ c[i] \in DOMAIN segments[i].kmers
            /\ IsLocalWinner(segments[i], c[i].word)}

\* the winner is one of the picked local winners, and none of them has a
\* larger identity count over the segments of keys
MaximalOver(keys) ==
    \E c \in RoundChoices :
        /\ \E i \in RoundLive : c[i] = result.winner.kmer
        /\ \A i \in RoundLive :
              IdentityTotal(keys, c[i]) <= IdentityTotal(keys, result.winner.kmer)

\* C12 as stated: in every round the winner returned by find_most_freq_kmer
\* is the local winner whose (word, strand) count summed over ALL segments
\* of the index, skipped or not, is maximal among the round's local winners.
C12_Original ==
    result.kind = "some" => MaximalOver(DOMAIN segments)

\* C12: in every round the winner returned by find_most_freq_kmer is one of
\* the round's local winners (one per segment not yet skipped), and its
\* (word, strand) count summed over the segments not skipped at the start of
\* the round is maximal among those local winners; the counts are by word
\* and strand, not collapsed by word, and skipped segments add nothing.
C12_WinnerMaximalOverLive ==
    result.kind = "some" => MaximalOver(RoundLive)

\* a later round chose between two live segments with different local
\* winners, one of which also occurs in a segment covered earlier, and the
\* winner is not the one with the larger count over all segments
C12_Witness ==
    /\ result.kind = "some"
    /\ result.given # {}
    /\ \E i, j \in RoundLive :
          /\ i # j
          /\ result.winner.kmer \in DOMAIN segments[i].kmers
          /\ \E k \in DOMAIN segments[j].kmers :
                /\ k # result.winner.kmer
                /\ IsLocalWinner(segments[j], k.word)
                /\ IdentityTotal(DOMAIN segments, k)
                      > IdentityTotal(DOMAIN segments, result.winner.kmer)
                /\ \E s \in result.given : k \in DOMAIN segments[s].kmers

----------------------------------------------------------------------------
(* Claims about the accepted list, checked under Spec.                     *)

\* every segment holding the word or its reverse complement is skipped
Covered(word) ==
    SegmentsHolding(word) \cup SegmentsHolding(reverse_complement(word))
        \subseteq skipped_segment_indexes

\* C13: after any number of rounds of get_candidates_kmers the accepted
\* list holds no word twice and no two accepted words are reverse
\* complements of each other, every segment holding an accepted word or its
\* reverse complement is in skipped, and the number of accepted candidates
\* never exceeds the number of segments.
C13_AcceptedDistinct ==
    /\ \A i \in 1..Len(candidate_kmers) : Covered(candidate_kmers[i].kmer.word)
    /\ \A i, j \in 1..Len(candidate_kmers) :
          i < j =>
              /\ candidate_kmers[i].kmer.word # candidate_kmers[j].kmer.word
              /\ candidate_kmers[i].kmer.word
                    # reverse_complement(candidate_kmers[j].kmer.word)
              /\ candidate_kmers[j].kmer.word
                    # reverse_complement(candidate_kmers[i].kmer.word)
    /\ Len(candidate_kmers) <= total_segments

\* two candidates were accepted, and the first covered a segment that holds
\* the reverse complement of its word
C13_Witness ==
    /\ Len(candidate_kmers) = 2
    /\ \E i \in DOMAIN segments :
          reverse_complement(candidate_kmers[1].kmer.word) \in WordsOf(segments[i])

====
